---- MODULE Spec2Model ----
(***************************************************************************)
(* Model of context_chat_backend's two flows:                              *)
(*   - scripts/prune_r2r_upsert_cache.py: main, get_doc_status, load_cache,*)
(*     save_cache (specification Spec: up to two runs in succession over   *)
(*     one file system and one remote, a run may be killed at any step);   *)
(*   - chain/one_shot.py: process_context_query (specification QuerySpec). *)
(* Strings are sequences of one-character strings, so that str.strip and   *)
(* str.lower are computed rather than assumed.  JSON values are tagged     *)
(* records; a file is the sequence of tokens json.dump wrote so far.       *)
(***************************************************************************)
EXTENDS Integers, Sequences, FiniteSets, TLC

VARIABLES
    fs,         \* file system: path -> file content (token sequence) or Absent
    remote,     \* the R2R API: doc_id -> response, fixed at the first query
    now,        \* wall clock in seconds, read by time.strftime
    run,        \* 1 or 2: which run of the script this is
    prev,       \* how the first run ended (history, read by no action)
    orig,       \* content of the cache path when the current run started (history)
    pc,         \* position of main
    dry_run,    \* args.dry_run
    cache,      \* main's `cache` dict, as the sequence of its items
    to_remove,  \* main's `to_remove` list
    idx,        \* position of the for loop in list(cache.items())
    counters,   \* main's checked / failed / not_found
    calls,      \* log of client.get calls: <<digest, doc_id>> in issue order
    out,        \* what the run printed and returned: removing count, exit code
    qpc,        \* position of process_context_query
    context_docs, \* the documents get_context_docs returned
    llm_calls,  \* number of llm.invoke calls
    qres        \* result of process_context_query: raised / output sources

pruneVars == <<fs, remote, now, run, prev, orig, pc, dry_run, cache, to_remove,
               idx, counters, calls, out>>
queryVars == <<qpc, context_docs, llm_calls, qres>>
vars == <<fs, remote, now, run, prev, orig, pc, dry_run, cache, to_remove,
          idx, counters, calls, out, qpc, context_docs, llm_calls, qres>>

(* ---------------------------- bounds ----------------------------------- *)
MaxRecords == 2     \* records in the initial cache file
MaxDocs == 2        \* documents a retrieval returns

(* ---------------------------- strings ---------------------------------- *)
UpperAlpha == <<"A","B","C","D","E","F","G","H","I","J","K","L","M",
                "N","O","P","Q","R","S","T","U","V","W","X","Y","Z">>
LowerAlpha == <<"a","b","c","d","e","f","g","h","i","j","k","l","m",
                "n","o","p","q","r","s","t","u","v","w","x","y","z">>
Whitespace == {" ", "\t", "\n"}

LowerTable ==
    [c \in {UpperAlpha[i] : i \in DOMAIN UpperAlpha} |->
       LowerAlpha[CHOOSE i \in DOMAIN UpperAlpha : UpperAlpha[i] = c]]

LowerChar(c) == IF c \in DOMAIN LowerTable THEN LowerTable[c] ELSE c

\* str.lower()
Lower(s) == [i \in DOMAIN s |-> LowerChar(s[i])]

\* str.strip()
Strip(s) ==
    LET keep == {i \in DOMAIN s : s[i] \notin Whitespace}
    IN IF keep = {} THEN <<>>
       ELSE SubSeq(s, CHOOSE i \in keep : \A j \in keep : i <= j,
                      CHOOSE i \in keep : \A j \in keep : i >= j)

S_failed == <<"f","a","i","l","e","d">>
S_error == <<"e","r","r","o","r">>
S_FAILED == <<"F","A","I","L","E","D">>
S_Error == <<"E","r","r","o","r">>
S_success == <<"s","u","c","c","e","s","s">>

(* ---------------------------- JSON values ------------------------------ *)
JAbsent == [tag |-> "absent", s |-> <<>>]   \* key not in the dict: dict.get gives None
JNull == [tag |-> "null", s |-> <<>>]
JStr(s) == [tag |-> "str", s |-> s]

\* Python truthiness of what dict.get returned
Truthy(v) == v.tag = "str" /\ v.s # <<>>
\* dict.get(key): an absent key reads as None
Get(v) == IF v.tag = "absent" THEN JNull ELSE v
\* a or b
PyOr(a, b) == IF Truthy(a) THEN a ELSE b

(* ---------------------------- files ------------------------------------ *)
NoEntry == [doc_id |-> JAbsent]
Tok(t) == [t |-> t, k |-> 0, v |-> NoEntry]
Item(k, v) == [t |-> "item", k |-> k, v |-> v]

AbsentFile == [exists |-> FALSE, text |-> <<>>]
File(text) == [exists |-> TRUE, text |-> text]

\* json.dump(data, fh): the tokens written, in order; data is the dict's item sequence
json_dump(data) ==
    <<Tok("{")>> \o [i \in 1..Len(data) |-> Item(data[i].k, data[i].v)] \o <<Tok("}")>>

\* json.load(fh): a dict, another JSON value, or JSONDecodeError
json_load(text) ==
    IF /\ Len(text) >= 2
       /\ text[1].t = "{"
       /\ text[Len(text)].t = "}"
       /\ \A i \in 2..(Len(text) - 1) : text[i].t = "item"
    THEN [ok |-> TRUE, is_dict |-> TRUE,
          items |-> [i \in 1..(Len(text) - 2) |-> [k |-> text[i + 1].k, v |-> text[i + 1].v]]]
    ELSE IF text = <<Tok("["), Tok("]")>>
    THEN [ok |-> TRUE, is_dict |-> FALSE, items |-> <<>>]
    ELSE [ok |-> FALSE, is_dict |-> FALSE, items |-> <<>>]

\* load_cache(path)
load_cache(f) == json_load(f.text)

\* isinstance(cache, dict)
IsDict(r) == r.is_dict

cache_path == <<"cache", 0>>
\* tmp = path.with_suffix(path.suffix + ".tmp")
tmp_path_same(path) == path
tmp_path(path) == <<"tmp", 0>>
\* backup = cache_path.with_suffix(cache_path.suffix + f".bak.{ts}")
backup_path(path, ts) == <<"bak", ts>>

Times == {1, 2}
Paths == {cache_path, tmp_path(cache_path)} \cup {backup_path(cache_path, t) : t \in Times}

\* Path.replace: rename src over dst
Rename(f, src, dst) ==
    IF src = dst THEN f ELSE [f EXCEPT ![dst] = f[src], ![src] = AbsentFile]

(* ---------------------------- cache contents --------------------------- *)
\* raw "doc_id" values of a record: absent, empty, blank, plain, padded
DocIdValues == {JAbsent, JStr(<<>>), JStr(<<" ">>), JStr(<<" ", "a">>), JStr(<<"b">>)}

\* doc_id = str(entry.get("doc_id") or "").strip()
DocIdOf(entry) == Strip(PyOr(Get(entry.doc_id), JStr(<<>>)).s)

\* if not doc_id
IsBlankAlwaysFalse(doc_id) == FALSE
IsBlank(doc_id) == doc_id = <<>>

DocIds == {DocIdOf([doc_id |-> v]) : v \in DocIdValues} \ {<<>>}

ItemsOf(ds) == [i \in 1..Len(ds) |-> [k |-> i, v |-> [doc_id |-> ds[i]]]]

InitialCacheFiles ==
    {AbsentFile, File(<<Tok("["), Tok("]")>>), File(<<Tok("{")>>)}
    \cup {File(json_dump(ItemsOf(ds))) :
            ds \in UNION {[1..n -> DocIdValues] : n \in 0..MaxRecords}}

(* ---------------------------- the remote -------------------------------- *)
Resp(kind, code, body, ing, st) ==
    [kind |-> kind, status_code |-> code, body |-> body,
     ingestion_status |-> ing, status |-> st]

Unknown == Resp("unknown", 0, "none", JAbsent, JAbsent)

\* the fields of a 200 body's "results" object: <<ingestion_status, status>>
ResultFields ==
    { <<JAbsent, JAbsent>>,
      <<JStr(S_failed), JAbsent>>,
      <<JStr(S_FAILED), JAbsent>>,
      <<JStr(S_success), JAbsent>>,
      <<JAbsent, JStr(S_Error)>>,
      <<JStr(<<>>), JStr(S_error)>>,
      <<JStr(S_success), JStr(S_failed)>> }

\* what one GET /v3/documents/{doc_id} can come to.  "http_error" is client.get
\* raising an httpx.HTTPError (timeout, connection failure): a request-level
\* error, which carries no response.
Responses ==
    { Resp("http_error", 0, "none", JAbsent, JAbsent),
      Resp("response", 404, "not_json", JAbsent, JAbsent),
      Resp("response", 500, "not_json", JAbsent, JAbsent),
      Resp("response", 200, "not_json", JAbsent, JAbsent),
      Resp("response", 200, "array", JAbsent, JAbsent),
      Resp("response", 200, "no_results", JAbsent, JAbsent),
      Resp("response", 200, "results_null", JAbsent, JAbsent) }
    \cup { Resp("response", 200, "results_obj", f[1], f[2]) : f \in ResultFields }

RemoteKeys == DocIds \cup {<<>>}

\* the responses the remote may give for doc_id: the one it gave before, else any
Answers(doc_id) ==
    IF remote[doc_id] = Unknown THEN Responses ELSE {remote[doc_id]}

Returned(status, http_status) ==
    [raised |-> FALSE, status |-> status, http_status |-> http_status]
Raised == [raised |-> TRUE, status |-> JNull, http_status |-> 0]

\* get_doc_status(client, doc_id) on the response r: (ingestion_status, http_status),
\* or an exception that leaves the function
get_doc_status(r) ==
    IF r.kind = "http_error" THEN Returned(JNull, 0)          \* no exc.response: 0
    ELSE IF r.status_code = 404 THEN Returned(JNull, 404)
    ELSE IF r.status_code >= 400 THEN Returned(JNull, r.status_code)
    ELSE IF r.body = "results_null" THEN Raised               \* data is None: data.get raises
    ELSE LET data == IF r.body = "results_obj"
                     THEN [ingestion_status |-> r.ingestion_status, status |-> r.status]
                     ELSE [ingestion_status |-> JAbsent, status |-> JAbsent]
             status == PyOr(Get(data.ingestion_status), Get(data.status))
         IN Returned(status, r.status_code)

\* status and status.lower() in {"failed", "error"}
IsFailedStatusCaseSensitive(status) == Truthy(status) /\ status.s \in {S_failed, S_error}
IsFailedStatus(status) == Truthy(status) /\ Lower(status.s) \in {S_failed, S_error}

Range(seq) == {seq[i] : i \in DOMAIN seq}

\* for digest in to_remove: cache.pop(digest, None)
PrunedFirstOnly(data, marked) ==
    SelectSeq(data, LAMBDA it : marked = <<>> \/ it.k # marked[1])
Pruned(data, marked) == SelectSeq(data, LAMBDA it : it.k \notin Range(marked))

\* the order of main's apply phase: shutil.copy2 (open the backup, copy into it),
\* the pops, save_cache (write the temporary file, replace)
ApplyOrderSaveFirst == <<"pop", "write", "replace", "backup", "copy">>
ApplyOrder == <<"backup", "copy", "pop", "write", "replace">>

StepAfter(p) ==
    LET i == CHOOSE j \in DOMAIN ApplyOrder : ApplyOrder[j] = p
    IN IF i < Len(ApplyOrder) THEN ApplyOrder[i + 1] ELSE "done"

\* the step main takes after its "Checked=..." line
AfterReportIgnoringDryRun(dry, marked) ==
    IF marked # <<>> THEN ApplyOrder[1] ELSE "done"
AfterReport(dry, marked) ==
    IF dry THEN "done" ELSE IF marked # <<>> THEN ApplyOrder[1] ELSE "done"

\* the status of a process that returned code, or -1 while it runs
ExitOn(p, code) == IF p = "done" THEN code ELSE -1

(* ---------------------------- state ------------------------------------ *)
NoRun == [pc |-> "none", dry_run |-> FALSE, exit_code |-> -1,
          before |-> AbsentFile, after |-> AbsentFile]
Fresh == [checked |-> 0, failed |-> 0, not_found |-> 0]
Silent == [removing |-> -1, exit_code |-> -1]

PruneInit ==
    /\ fs \in {[p \in Paths |-> IF p = cache_path THEN f ELSE AbsentFile] :
                 f \in InitialCacheFiles}
    /\ remote = [d \in RemoteKeys |-> Unknown]
    /\ now = 1
    /\ run = 1
    /\ prev = NoRun
    /\ orig = fs
    /\ pc = "start"
    /\ dry_run \in BOOLEAN
    /\ cache = <<>>
    /\ to_remove = <<>>
    /\ idx = 1
    /\ counters = Fresh
    /\ calls = <<>>
    /\ out = Silent

QueryIdle ==
    /\ qpc = "idle"
    /\ context_docs = <<>>
    /\ llm_calls = 0
    /\ qres = [raised |-> "none", sources |-> <<>>]

Init == PruneInit /\ QueryIdle

\* the prune script is not running
PruneIdle ==
    /\ fs = [p \in Paths |-> AbsentFile]
    /\ remote = [d \in RemoteKeys |-> Unknown]
    /\ now = 1
    /\ run = 1
    /\ prev = NoRun
    /\ orig = fs
    /\ pc = "idle"
    /\ dry_run = FALSE
    /\ cache = <<>>
    /\ to_remove = <<>>
    /\ idx = 1
    /\ counters = Fresh
    /\ calls = <<>>
    /\ out = Silent

(* ---------------------------- main ------------------------------------- *)
\* main, lines 104-116: the existence test, load_cache, the isinstance test.
\* An exception that leaves main ends the process with status 1.
Load ==
    /\ pc = "start"
    /\ LET f == fs[cache_path]
           r == load_cache(f)
       IN IF ~f.exists
          THEN /\ pc' = "done"
               /\ out' = [out EXCEPT !.exit_code = 2]
               /\ cache' = cache
          ELSE IF ~r.ok
          THEN /\ pc' = "raised"
               /\ out' = [out EXCEPT !.exit_code = 1]
               /\ cache' = cache
          ELSE IF ~IsDict(r)
          THEN /\ pc' = "done"
               /\ out' = [out EXCEPT !.exit_code = 2]
               /\ cache' = cache
          ELSE /\ pc' = "scan"
               /\ out' = out
               /\ cache' = r.items
    /\ UNCHANGED <<fs, remote, now, run, prev, orig, dry_run, to_remove, idx,
                   counters, calls>>

\* main, lines 125-141: one iteration of the for loop, the status call included.
\* The loop runs over list(cache.items()); cache is not changed before the pops.
ScanNext ==
    /\ pc = "scan"
    /\ idx <= Len(cache)
    /\ LET digest == cache[idx].k
           doc_id == DocIdOf(cache[idx].v)
       IN IF IsBlank(doc_id)
          THEN /\ to_remove' = Append(to_remove, digest)
               /\ counters' = [counters EXCEPT !.checked = @ + 1]
               /\ idx' = idx + 1
               /\ UNCHANGED <<remote, calls, pc, out>>
          ELSE \E resp \in Answers(doc_id) :
               LET r == get_doc_status(resp)
               IN /\ remote' = [remote EXCEPT ![doc_id] = resp]
                  /\ calls' = Append(calls, <<digest, doc_id>>)
                  /\ IF r.raised
                     THEN /\ pc' = "raised"
                          /\ out' = [out EXCEPT !.exit_code = 1]
                          /\ counters' = [counters EXCEPT !.checked = @ + 1]
                          /\ UNCHANGED <<to_remove, idx>>
                     ELSE /\ idx' = idx + 1
                          /\ UNCHANGED <<pc, out>>
                          /\ IF r.http_status = 404
                             THEN /\ to_remove' = Append(to_remove, digest)
                                  /\ counters' = [counters EXCEPT !.checked = @ + 1,
                                                                  !.not_found = @ + 1]
                             ELSE IF IsFailedStatus(r.status)
                             THEN /\ to_remove' = Append(to_remove, digest)
                                  /\ counters' = [counters EXCEPT !.checked = @ + 1,
                                                                  !.failed = @ + 1]
                             ELSE /\ to_remove' = to_remove
                                  /\ counters' = [counters EXCEPT !.checked = @ + 1]
    /\ UNCHANGED <<fs, now, run, prev, orig, dry_run, cache>>

\* main, lines 143-150 and 159-161: the "Checked=..." line, the dry-run return,
\* the choice between the apply phase and "No entries to remove."
Report ==
    /\ pc = "scan"
    /\ idx > Len(cache)
    /\ pc' = AfterReport(dry_run, to_remove)
    /\ out' = [removing |-> Len(to_remove), exit_code |-> ExitOn(pc', 0)]
    /\ UNCHANGED <<fs, remote, now, run, prev, orig, dry_run, cache, to_remove,
                   idx, counters, calls>>

\* shutil.copy2(cache_path, backup), first half: the backup file is created empty
BackupOpen ==
    /\ pc = "backup"
    /\ fs' = [fs EXCEPT ![backup_path(cache_path, now)] = File(<<>>)]
    /\ pc' = StepAfter("backup")
    /\ out' = [out EXCEPT !.exit_code = ExitOn(pc', 0)]
    /\ UNCHANGED <<remote, now, run, prev, orig, dry_run, cache, to_remove, idx,
                   counters, calls>>

\* shutil.copy2, second half: the content of the cache path is copied into it
BackupCopy ==
    /\ pc = "copy"
    /\ fs' = [fs EXCEPT ![backup_path(cache_path, now)] = fs[cache_path]]
    /\ pc' = StepAfter("copy")
    /\ out' = [out EXCEPT !.exit_code = ExitOn(pc', 0)]
    /\ UNCHANGED <<remote, now, run, prev, orig, dry_run, cache, to_remove, idx,
                   counters, calls>>

\* main, lines 155-156, and save_cache's tmp.open("w"): the pops, then the
\* temporary file is created or truncated
PopAndOpen ==
    /\ pc = "pop"
    /\ cache' = Pruned(cache, to_remove)
    /\ fs' = [fs EXCEPT ![tmp_path(cache_path)] = File(<<>>)]
    /\ pc' = StepAfter("pop")
    /\ out' = [out EXCEPT !.exit_code = ExitOn(pc', 0)]
    /\ UNCHANGED <<remote, now, run, prev, orig, dry_run, to_remove, idx,
                   counters, calls>>

\* save_cache, json.dump: the next token reaches the temporary file; after the
\* last one the file is closed
WriteTmp ==
    /\ pc = "write"
    /\ LET text == json_dump(cache)
           tmp == tmp_path(cache_path)
           n == Len(fs[tmp].text)
       IN /\ n < Len(text)
          /\ fs' = [fs EXCEPT ![tmp] = File(Append(fs[tmp].text, text[n + 1]))]
          /\ pc' = IF n + 1 = Len(text) THEN StepAfter("write") ELSE "write"
    /\ out' = [out EXCEPT !.exit_code = ExitOn(pc', 0)]
    /\ UNCHANGED <<remote, now, run, prev, orig, dry_run, cache, to_remove, idx,
                   counters, calls>>

\* save_cache, tmp.replace(path), and main's return 0
Replace ==
    /\ pc = "replace"
    /\ fs' = Rename(fs, tmp_path(cache_path), cache_path)
    /\ pc' = StepAfter("replace")
    /\ out' = [out EXCEPT !.exit_code = ExitOn(pc', 0)]
    /\ UNCHANGED <<remote, now, run, prev, orig, dry_run, cache, to_remove, idx,
                   counters, calls>>

\* the process is killed between two steps of the apply phase
Crash ==
    /\ pc \in Range(ApplyOrder)
    /\ pc' = "crashed"
    /\ UNCHANGED <<fs, remote, now, run, prev, orig, dry_run, cache, to_remove,
                   idx, counters, calls, out>>

\* the script is run a second time, after a first run that ended by itself: the
\* files and the remote are as the first run left them, everything in memory is new, the clock may have moved on
NextRun ==
    /\ run = 1
    /\ pc \in {"done", "raised"}
    /\ run' = 2
    /\ prev' = [pc |-> pc, dry_run |-> dry_run, exit_code |-> out.exit_code,
                before |-> orig[cache_path], after |-> fs[cache_path]]
    /\ orig' = fs
    /\ now' \in IF fs[backup_path(cache_path, now)].exists
                 THEN {now, now + 1}   \* the same second, or a later one
                 ELSE {now + 1}        \* no backup yet: the two differ in a name only
    /\ dry_run' \in BOOLEAN
    /\ pc' = "start"
    /\ cache' = <<>>
    /\ to_remove' = <<>>
    /\ idx' = 1
    /\ counters' = Fresh
    /\ calls' = <<>>
    /\ out' = Silent
    /\ UNCHANGED <<fs, remote>>

Next ==
    \/ (Load /\ UNCHANGED queryVars)
    \/ (ScanNext /\ UNCHANGED queryVars)
    \/ (Report /\ UNCHANGED queryVars)
    \/ (BackupOpen /\ UNCHANGED queryVars)
    \/ (BackupCopy /\ UNCHANGED queryVars)
    \/ (PopAndOpen /\ UNCHANGED queryVars)
    \/ (WriteTmp /\ UNCHANGED queryVars)
    \/ (Replace /\ UNCHANGED queryVars)
    \/ (Crash /\ UNCHANGED queryVars)
    \/ (NextRun /\ UNCHANGED queryVars)

Spec == Init /\ [][Next]_vars

(* ---------------------------- process_context_query -------------------- *)
\* the "source" metadata of a retrieved document: absent, None, empty, or a name
SourceValues == {JAbsent, JNull, JStr(<<>>), JStr(<<"x">>), JStr(<<"y">>)}
Doc(src) == [metadata |-> [source |-> src]]
DocLists == UNION {[1..n -> {Doc(v) : v \in SourceValues}] : n \in 0..MaxDocs}

\* if len(context_docs) == 0
NoDocsNever(docs) == FALSE
NoDocs(docs) == Len(docs) = 0

\* the lists list(s) can give for a set s of strings: its elements, each once, in any order
ListsOf(S) ==
    {l \in [1..Cardinality(S) -> S] : \A v \in S : \E i \in DOMAIN l : l[i] = v}

\* list({source for d in context_docs if (source := d.metadata.get('source'))})
unique_sources_no_set(docs) ==
    LET named == SelectSeq(docs, LAMBDA d : Truthy(Get(d.metadata.source)))
    IN {[i \in 1..Len(named) |-> named[i].metadata.source.s]}
unique_sources(docs) ==
    ListsOf({Get(docs[i].metadata.source).s :
               i \in {j \in DOMAIN docs : Truthy(Get(docs[j].metadata.source))}})

QueryInit ==
    /\ PruneIdle
    /\ qpc = "start"
    /\ context_docs = <<>>
    /\ llm_calls = 0
    /\ qres = [raised |-> "none", sources |-> <<>>]

\* lines 65-68: the retrieval and the empty test
Retrieve ==
    /\ qpc = "start"
    /\ \E docs \in DocLists :
         /\ context_docs' = docs
         /\ IF NoDocs(docs)
            THEN /\ qpc' = "done"
                 /\ qres' = [qres EXCEPT !.raised = "ContextException"]
            ELSE /\ qpc' = "prune"
                 /\ qres' = qres
    /\ UNCHANGED llm_calls

\* lines 70-77: get_context_chunks and get_pruned_query, which raises ValueError
\* when the context length is too small to fit the query
PruneQuery ==
    /\ qpc = "prune"
    /\ \E fits \in BOOLEAN :
         IF fits
         THEN qpc' = "invoke" /\ qres' = qres
         ELSE qpc' = "done" /\ qres' = [qres EXCEPT !.raised = "ValueError"]
    /\ UNCHANGED <<context_docs, llm_calls>>

\* lines 76-83: llm.invoke, whose exception propagates, then the sources and the return
Invoke ==
    /\ qpc = "invoke"
    /\ llm_calls' = llm_calls + 1
    /\ qpc' = "done"
    /\ \E answered \in BOOLEAN :
         IF answered
         THEN \E l \in unique_sources(context_docs) : qres' = [qres EXCEPT !.sources = l]
         ELSE qres' = [qres EXCEPT !.raised = "LLMError"]
    /\ UNCHANGED context_docs

QueryNext ==
    \/ (Retrieve /\ UNCHANGED pruneVars)
    \/ (PruneQuery /\ UNCHANGED pruneVars)
    \/ (Invoke /\ UNCHANGED pruneVars)

QuerySpec == QueryInit /\ [][QueryNext]_vars

(* ---------------------------- what the claims speak of ----------------- *)
\* the cache path held a JSON object when the current run started
ValidCache(f) == f.exists /\ LET r == json_load(f.text) IN r.ok /\ r.is_dict
\* the records of that object, in file order
OrigItems ==
    LET f == orig[cache_path]
        r == json_load(f.text)
    IN IF f.exists /\ r.ok /\ r.is_dict THEN r.items ELSE <<>>

\* a doc_id that is absent, null, empty or made of whitespace only
BlankDocId(v) == v.tag # "str" \/ \A i \in DOMAIN v.s : v.s[i] \in Whitespace

EqualsIgnoreCase(s, t) ==
    Len(s) = Len(t) /\ \A i \in DOMAIN s : LowerChar(s[i]) = LowerChar(t[i])

\* the ingestion status a 200 response reports: ingestion_status, else status
ReportedStatus(r) ==
    IF r.ingestion_status.tag = "str" /\ r.ingestion_status.s # <<>>
    THEN r.ingestion_status ELSE r.status

ReportsFailure(r) ==
    /\ r.kind = "response" /\ r.status_code = 200 /\ r.body = "results_obj"
    /\ ReportedStatus(r).tag = "str"
    /\ \/ EqualsIgnoreCase(ReportedStatus(r).s, S_failed)
       \/ EqualsIgnoreCase(ReportedStatus(r).s, S_error)

Reports404(r) == r.kind = "response" /\ r.status_code = 404

\* the record is stale: no usable doc_id, or the remote says 404 or failed
Stale(entry) ==
    \/ BlankDocId(entry.doc_id)
    \/ Reports404(remote[Strip(entry.doc_id.s)])
    \/ ReportsFailure(remote[Strip(entry.doc_id.s)])

Marked == Range(to_remove)

\* the records whose loop iteration has begun
Begun == IF pc = "raised" /\ idx <= Len(OrigItems) THEN idx ELSE idx - 1

\* C1: every record the scan has passed is marked for removal if and only if its
\* doc_id is blank, or the remote answered 404, or the remote reported the status
\* failed or error in any letter case; nothing else is marked; and a run that
\* returns after applying leaves exactly the other records in the cache file.
C1_MarkedIffStale ==
    LET items == OrigItems
        marked == Marked
    IN /\ \A i \in 1..(idx - 1) :
            i <= Len(items) => (items[i].k \in marked <=> Stale(items[i].v))
       /\ marked \subseteq {items[i].k : i \in 1..(idx - 1) \cap DOMAIN items}
       /\ (pc = "done" /\ ~dry_run /\ ValidCache(orig[cache_path]))
            => /\ ValidCache(fs[cache_path])
               /\ json_load(fs[cache_path].text).items
                    = SelectSeq(items, LAMBDA it : ~Stale(it.v))

C1_Witness ==
    /\ pc = "done" /\ ~dry_run
    /\ \E i, j \in DOMAIN OrigItems :
         /\ ~BlankDocId(OrigItems[i].v.doc_id)
         /\ remote[Strip(OrigItems[i].v.doc_id.s)].ingestion_status = JStr(S_FAILED)
         /\ OrigItems[i].k \in Marked
         /\ ~BlankDocId(OrigItems[j].v.doc_id)
         /\ remote[Strip(OrigItems[j].v.doc_id.s)].kind = "http_error"
         /\ OrigItems[j].k \notin Marked

\* C2: an exception leaves main only for a file-level error: whenever the cache
\* file held a JSON object, no record's status check ends the run.
C2_OnlyFileErrorsAbort == pc = "raised" => ~ValidCache(orig[cache_path])

\* C3: the cache path holds, in every state and whatever was killed, either the
\* content it had when the run started or the complete dump of the original
\* records minus the marked ones.
C3_CacheFileWhole ==
    \/ fs[cache_path] = orig[cache_path]
    \/ /\ ValidCache(orig[cache_path])
       /\ fs[cache_path] = File(json_dump(SelectSeq(OrigItems, LAMBDA it : it.k \notin Marked)))

C3_Witness ==
    /\ pc = "crashed"
    /\ fs[tmp_path(cache_path)].exists
    /\ Len(fs[tmp_path(cache_path)].text) >= 2
    /\ ~json_load(fs[tmp_path(cache_path)].text).ok
    /\ fs[cache_path] = orig[cache_path]

\* C4: once the run pops records or touches the temporary file or the cache path,
\* the backup of this run holds the complete original content of the cache path.
C4_BackupBeforeOverwrite ==
    (pc \in {"pop", "write", "replace"} \/ fs[cache_path] # orig[cache_path])
      => fs[backup_path(cache_path, now)] = orig[cache_path]

C4_Witness ==
    /\ pc = "done"
    /\ fs[cache_path] # orig[cache_path]
    /\ fs[backup_path(cache_path, now)] = orig[cache_path]

\* C5: a dry run changes no file at any step, and when main returns from a
\* loaded cache it has printed the number of marked records and returns 0.
C5_DryRunFrame ==
    dry_run =>
      /\ fs = orig
      /\ (pc = "done" /\ ValidCache(orig[cache_path]))
           => /\ out.exit_code = 0
              /\ LET items == OrigItems
                 IN out.removing = Cardinality({i \in DOMAIN items : Stale(items[i].v)})

C5_Witness ==
    /\ dry_run /\ pc = "done" /\ out.removing = 2 /\ out.exit_code = 0
    /\ fs[cache_path] = File(json_dump(OrigItems))

\* C6: a missing, malformed or non-object cache file ends the run with exit
\* code 2, with no remote call and no file change.
C6_InvalidCacheExit2 ==
    (pc \in {"done", "raised"} /\ ~ValidCache(orig[cache_path]))
      => (out.exit_code = 2 /\ calls = <<>> /\ fs = orig)

\* C7: when the first run was not a dry run and returned 0, a second run that is
\* not a dry run marks nothing and the cache path keeps the content the first
\* run left; and after any first run that ended by itself, the second changes
\* nothing at the cache path.
C7_SecondRunRemovesNothing ==
    (run = 2 /\ ~prev.dry_run /\ ~dry_run) =>
      /\ (prev.pc = "done" /\ prev.exit_code = 0)
           => (to_remove = <<>> /\ fs[cache_path] = prev.after)
      /\ prev.pc \in {"done", "raised"} => fs[cache_path] = prev.after

C7_Witness ==
    /\ run = 2 /\ ~prev.dry_run /\ ~dry_run
    /\ prev.pc = "done" /\ prev.exit_code = 0
    /\ prev.before # prev.after
    /\ pc = "done" /\ Len(calls) >= 1

\* C8: a context query whose retrieval is empty raises the no-context error and
\* never reaches the LLM; the LLM is invoked only after a non-empty retrieval.
C8_NoContextNoLLM ==
    /\ (qpc # "start" /\ Len(context_docs) = 0)
         => (qpc = "done" /\ qres.raised = "ContextException" /\ llm_calls = 0)
    /\ llm_calls > 0 => Len(context_docs) > 0
    /\ qpc = "invoke" => Len(context_docs) > 0

C8_Witness == qpc = "done" /\ qres.raised = "ContextException" /\ llm_calls = 0

\* C9: the returned sources hold every non-empty source value of the retrieved
\* documents exactly once, and nothing else.
C9_SourcesDeduplicated ==
    (qpc = "done" /\ qres.raised = "none") =>
      /\ \A j \in DOMAIN context_docs :
           LET v == context_docs[j].metadata.source
           IN (v.tag = "str" /\ v.s # <<>>)
                => Cardinality({i \in DOMAIN qres.sources : qres.sources[i] = v.s}) = 1
      /\ \A i \in DOMAIN qres.sources :
           /\ qres.sources[i] # <<>>
           /\ \E j \in DOMAIN context_docs :
                context_docs[j].metadata.source = JStr(qres.sources[i])

C9_Witness ==
    /\ qpc = "done" /\ qres.raised = "none"
    /\ Len(context_docs) = 2
    /\ context_docs[1] = context_docs[2]
    /\ Len(qres.sources) = 1

\* C10: the status calls issued so far are, in order, one call for each record
\* with a non-blank doc_id whose iteration has begun, with its stripped doc_id,
\* and none for any other record: no call for a blank doc_id, no second call.
C10_OneCallPerRecord ==
    LET begun == SubSeq(OrigItems, 1, Begun)
        named == SelectSeq(begun, LAMBDA it : ~BlankDocId(it.v.doc_id))
    IN calls = [i \in 1..Len(named) |-> <<named[i].k, Strip(named[i].v.doc_id.s)>>]

C10_Witness ==
    /\ pc = "done" /\ Len(OrigItems) = 2 /\ Len(calls) = 1
    /\ BlankDocId(OrigItems[1].v.doc_id)
    /\ remote[calls[1][2]].kind = "http_error"

====
